---- MODULE Spec2Model ----
(***************************************************************************)
(* Model of the platform independent state button debouncer                *)
(* (C/test_button_debounce/button_debounce.c).  One tDebouncer instance    *)
(* debounces the eight inputs of a port; the caller feeds raw port         *)
(* samples to ButtonProcess and queries the derived masks.                 *)
(***************************************************************************)
EXTENDS Integers, Sequences, FiniteSets, TLC

\* Depth of the sample window (button_debounce.h is configuration; the
\* value is the one of the specification's worked scenario).
MAX_BUTTON_CHECKS == 4

\* Largest window depth, and number of calls, for which the index alone is
\* followed.
MaxDepth == 6
MaxSteps == 20

Byte == 0..255
Bits == 0..7

\* Values the environment supplies.
PullSet == {0, 255, 15}
RawSet == {0, 255, 254, 165}
MaskSet == {255, 1}

\* Pin masks the properties are evaluated for: none, all, every single pin,
\* every pin left out, and some mixed ones.
Masks ==
    {0, 255, 15, 240, 85, 170, 165, 90}
       \cup {2^b : b \in 0..7} \cup {255 - 2^b : b \in 0..7}
PairRawSet == {255, 254, 165}
PairBits == {0, 6}
IrqRawSet == {254, 255}

----------------------------------------------------------------------------
\* uint8_t arithmetic

Bit(x, i) == (x \div (2^i)) % 2

RECURSIVE AndN(_, _, _)
AndN(a, b, n) ==
    IF n = 0 THEN 0
    ELSE ((a % 2) * (b % 2)) + 2 * AndN(a \div 2, b \div 2, n - 1)

RECURSIVE XorN(_, _, _)
XorN(a, b, n) ==
    IF n = 0 THEN 0
    ELSE (((a % 2) + (b % 2)) % 2) + 2 * XorN(a \div 2, b \div 2, n - 1)

\* a & b, a ^ b on uint8_t operands, tabulated
AndTable == [a \in Byte |-> [b \in Byte |-> AndN(a, b, 8)]]
XorTable == [a \in Byte |-> [b \in Byte |-> XorN(a, b, 8)]]

BitAnd(a, b) == AndTable[a][b]
BitXor(a, b) == XorTable[a][b]
\* ~a: the operand is promoted to int; every use in the source either
\* stores the result in a uint8_t or masks it with a uint8_t, which keeps
\* the low eight bits.
BitNot(a) == (-a - 1) % 256

----------------------------------------------------------------------------
\* The tDebouncer structure and the functions operating on it

Slots == 0..(MAX_BUTTON_CHECKS - 1)

\* Contents of a tDebouncer before ButtonDebounceInit has run: whatever the
\* memory held.
UninitSet ==
    { [index |-> i, debouncedState |-> d, changed |-> d, pullType |-> d,
       state |-> [s \in Slots |-> d]] : i \in {0, 200}, d \in {0, 255} }

\* (fault: changed is not cleared)
ButtonDebounceInitKeepChanged(p, pulledUpButtons) ==
    [p EXCEPT !.index = 0,
              !.debouncedState = 255,
              !.pullType = pulledUpButtons,
              !.state = [i \in Slots |-> 255]]

\* ButtonDebounceInit(port, pulledUpButtons)
ButtonDebounceInit(p, pulledUpButtons) ==
    [p EXCEPT !.index = 0,
              !.debouncedState = 255,
              !.changed = 0,
              !.pullType = pulledUpButtons,
              !.state = [i \in Slots |-> 255]]

\* (fault: logical ! instead of bitwise ~)
NormalizeLogicalNot(portStatus, pullType) ==
    IF BitXor(portStatus, pullType) = 0 THEN 1 ELSE 0

\* (fault: the pull type is ignored)
NormalizeNoPull(portStatus, pullType) == BitNot(portStatus)

\* (fault: the complement is forgotten)
NormalizeNoInvert(portStatus, pullType) == BitXor(portStatus, pullType)

\* portStatus = ~(portStatus ^ port->pullType)
Normalize(portStatus, pullType) == BitNot(BitXor(portStatus, pullType))

\* for(i = 0, debouncedState = 0xFF; i < MAX_BUTTON_CHECKS; i++)
\*     debouncedState = debouncedState & state[i];
RECURSIVE DebounceLoop(_, _, _)
DebounceLoop(state, i, acc) ==
    IF i < MAX_BUTTON_CHECKS
    THEN DebounceLoop(state, i + 1, BitAnd(acc, state[i]))
    ELSE acc

\* (fault: the loop starts at slot 1)
DebounceSkipFirst(state) == DebounceLoop(state, 1, 255)

Debounce(state) == DebounceLoop(state, 0, 255)

\* (fault: the index is incremented twice)
NextIndexTwice(index) ==
    LET inc == (index + 2) % 256
    IN IF inc >= MAX_BUTTON_CHECKS THEN 0 ELSE inc

\* (fault: the index never advances)
NextIndexStuck(index) == index

\* (fault: > instead of >=)
IndexAdvanceLate(index, checks) ==
    LET inc == (index + 1) % 256
    IN IF inc > checks THEN 0 ELSE inc

\* port->index++; if(port->index >= MAX_BUTTON_CHECKS) port->index = 0;
\* with the value of MAX_BUTTON_CHECKS as a parameter
IndexAdvance(index, checks) ==
    LET inc == (index + 1) % 256
    IN IF inc >= checks THEN 0 ELSE inc

NextIndex(index) == IndexAdvance(index, MAX_BUTTON_CHECKS)

\* port->changed = port->debouncedState ^ lastDebouncedState
Changed(debouncedState, lastDebouncedState) ==
    BitXor(debouncedState, lastDebouncedState)

\* (fault: lastDebouncedState is captured after the debounce loop)
ButtonProcessLateCapture(p, portStatus) ==
    LET status == Normalize(portStatus, p.pullType)
        state == [p.state EXCEPT ![p.index] = status]
        debouncedState == Debounce(state)
        lastDebouncedState == debouncedState
    IN [p EXCEPT !.state = state,
                 !.debouncedState = debouncedState,
                 !.index = NextIndex(p.index),
                 !.changed = Changed(debouncedState, lastDebouncedState)]

\* (fault: the window is debounced before the new sample is stored)
ButtonProcessStale(p, portStatus) ==
    LET lastDebouncedState == p.debouncedState
        status == Normalize(portStatus, p.pullType)
        debouncedState == Debounce(p.state)
    IN [p EXCEPT !.state = [p.state EXCEPT ![p.index] = status],
                 !.debouncedState = debouncedState,
                 !.index = NextIndex(p.index),
                 !.changed = Changed(debouncedState, lastDebouncedState)]

\* ButtonProcess(port, portStatus)
ButtonProcess(p, portStatus) ==
    LET lastDebouncedState == p.debouncedState
        status == Normalize(portStatus, p.pullType)
        state == [p.state EXCEPT ![p.index] = status]
        debouncedState == Debounce(state)
    IN [p EXCEPT !.state = state,
                 !.debouncedState = debouncedState,
                 !.index = NextIndex(p.index),
                 !.changed = Changed(debouncedState, lastDebouncedState)]

\* (fault: debouncedState is not complemented)
ButtonPressedNoInvert(p, GPIOButtonPins) ==
    BitAnd(BitAnd(p.changed, p.debouncedState), GPIOButtonPins)

\* (fault: the level is reported instead of the edge)
ButtonPressedLevel(p, GPIOButtonPins) ==
    BitAnd(BitNot(p.debouncedState), GPIOButtonPins)

\* ButtonPressed(port, GPIOButtonPins)
ButtonPressed(p, GPIOButtonPins) ==
    BitAnd(BitAnd(p.changed, BitNot(p.debouncedState)), GPIOButtonPins)

\* (fault: the pin mask is not applied)
ButtonReleasedNoMask(p, GPIOButtonPins) ==
    BitAnd(p.changed, p.debouncedState)

\* (fault: the level is reported instead of the edge)
ButtonReleasedLevel(p, GPIOButtonPins) ==
    BitAnd(p.debouncedState, GPIOButtonPins)

\* ButtonReleased(port, GPIOButtonPins)
ButtonReleased(p, GPIOButtonPins) ==
    BitAnd(BitAnd(p.changed, p.debouncedState), GPIOButtonPins)

\* (fault: the complement is forgotten)
ButtonDebounceStateGetNoInvert(p) == BitXor(p.debouncedState, p.pullType)

\* (fault: & instead of ^)
ButtonDebounceStateGetAndPull(p) ==
    BitNot(BitAnd(p.debouncedState, p.pullType))

\* (fault: the pull type is ignored)
ButtonDebounceStateGetNoPull(p) == BitNot(p.debouncedState)

\* ButtonDebounceStateGet(port)
ButtonDebounceStateGet(p) == BitNot(BitXor(p.debouncedState, p.pullType))

----------------------------------------------------------------------------
\* State

VARIABLES
    port,       \* the tDebouncer instance
    other,      \* a second, independent tDebouncer instance
    pairBit,    \* the bit on which the two instances are compared, or
                \* whose events are recorded
    samples,    \* raw bytes given to ButtonProcess since the last
                \* initialisation, the most recent MAX_BUTTON_CHECKS of them
    calls,      \* number of ButtonProcess calls since the last
                \* initialisation, saturating above MAX_BUTTON_CHECKS
    zeroRuns,   \* bits whose raw samples since the last initialisation
                \* contained MAX_BUTTON_CHECKS consecutive 0s (recorded
                \* by SpecBounce)
    isolated,   \* bits whose raw samples since the last initialisation
                \* began with a 1 and never had two 0s in a row (recorded
                \* by SpecBounce)
    phase,      \* number of ButtonProcess calls since the last
                \* initialisation, modulo MAX_BUTTON_CHECKS
    before,     \* debouncedState when the last ButtonDebounceInit or
                \* ButtonProcess call started
    ret,        \* the last call made and what it returned
    depth,      \* a value of MAX_BUTTON_CHECKS (varied by SpecDepth)
    cursor,     \* the index of an instance built with MAX_BUTTON_CHECKS
                \* = depth (followed by SpecDepth)
    steps,      \* number of ButtonProcess calls made on that instance
    run,        \* the current run of equal raw samples: debouncedState
                \* before its first call, the bits set in changed after
                \* any of its calls, and those set after more than one
                \* (recorded by SpecSteady)
    events,     \* for bit pairBit: the last event reported ("none",
                \* "pressed", "released"), the number of ButtonProcess
                \* calls since the last one that reported it pressed
                \* (saturating above MAX_BUTTON_CHECKS, where it starts),
                \* and how many times it was reported pressed, up to 2
                \* (recorded by SpecEvents)
    proc,       \* the ButtonProcess call in progress, if any: where it
                \* is, and its locals i, lastDebouncedState and portStatus
                \* (with the raw byte it was given); used by SpecIrq
    snap        \* the instance as it was when that call started

\* What the specifications of a single fixed-depth instance leave alone.
aside == <<depth, cursor, steps, run, events, proc, snap>>

vars == <<port, other, pairBit, samples, calls, phase, zeroRuns, isolated,
          before, ret, aside>>

Window(s) ==
    IF Len(s) > MAX_BUTTON_CHECKS
    THEN SubSeq(s, Len(s) - MAX_BUTTON_CHECKS + 1, Len(s))
    ELSE s

Saturate(n) == IF n > MAX_BUTTON_CHECKS THEN MAX_BUTTON_CHECKS + 1 ELSE n

\* Bits that are raw 0 in each of the last MAX_BUTTON_CHECKS samples.
ZeroRun(s) ==
    { b \in Bits : /\ Len(s) = MAX_BUTTON_CHECKS
                   /\ \A k \in 1..Len(s) : Bit(s[k], b) = 0 }

\* Bits of set that stay "mostly 1 with isolated 0s" when raw follows s.
StillIsolated(set, s, raw) ==
    { b \in set : /\ Len(s) = 0 => Bit(raw, b) = 1
                  /\ Len(s) > 0 => (Bit(raw, b) = 1 \/ Bit(s[Len(s)], b) = 1) }

Idle == ButtonDebounceInit(CHOOSE u \in UninitSet : TRUE, 0)

NoEvents ==
    [last |-> "none", since |-> MAX_BUTTON_CHECKS + 1, presses |-> 0]

NoCall ==
    [pc |-> "idle", i |-> 0, lastDebouncedState |-> 0, portStatus |-> 0,
     raw |-> 0]

AsideInit ==
    /\ depth = MAX_BUTTON_CHECKS
    /\ cursor = 0
    /\ steps = 0
    /\ run = [start |-> 255, changed |-> {}, twice |-> {}]
    /\ events = NoEvents
    /\ proc = NoCall
    /\ snap = Idle

----------------------------------------------------------------------------
\* One instance, driven by a single caller

Init ==
    /\ \E u \in UninitSet, pulledUpButtons \in PullSet :
          /\ port = ButtonDebounceInit(u, pulledUpButtons)
          /\ before = u.debouncedState
          /\ ret = [op |-> "init", arg |-> pulledUpButtons, val |-> 0]
    /\ other = Idle
    /\ pairBit = 0
    /\ samples = << >>
    /\ calls = 0
    /\ phase = 0
    /\ zeroRuns = {}
    /\ isolated = Bits
    /\ AsideInit

\* The caller initialises the instance again.
Reinit ==
    /\ \E pulledUpButtons \in PullSet :
          /\ port' = ButtonDebounceInit(port, pulledUpButtons)
          /\ ret' = [op |-> "init", arg |-> pulledUpButtons, val |-> 0]
    /\ before' = port.debouncedState
    /\ samples' = << >>
    /\ calls' = 0
    /\ phase' = 0
    /\ zeroRuns' = {}
    /\ isolated' = Bits
    /\ UNCHANGED <<aside, other, pairBit>>

\* The caller samples the port and processes the sample.
ProcessCall(portStatus) ==
    /\ port' = ButtonProcess(port, portStatus)
    /\ samples' = Window(Append(samples, portStatus))
    /\ ret' = [op |-> "process", arg |-> portStatus, val |-> 0]
    /\ before' = port.debouncedState
    /\ calls' = Saturate(calls + 1)
    /\ phase' = (phase + 1) % MAX_BUTTON_CHECKS

Process ==
    \E portStatus \in RawSet :
        /\ ProcessCall(portStatus)
        /\ UNCHANGED <<aside, other, pairBit, zeroRuns, isolated>>

\* (fault: the reported bits are cleared from changed)
PressedAndClear ==
    /\ \E GPIOButtonPins \in MaskSet :
          /\ ret' = [op |-> "pressed", arg |-> GPIOButtonPins,
                     val |-> ButtonPressed(port, GPIOButtonPins)]
          /\ port' = [port EXCEPT
                         !.changed = BitAnd(@, BitNot(GPIOButtonPins))]
    /\ UNCHANGED <<aside, other, pairBit, samples, calls, phase, zeroRuns,
                   isolated, before>>

Pressed ==
    /\ \E GPIOButtonPins \in MaskSet :
          ret' = [op |-> "pressed", arg |-> GPIOButtonPins,
                  val |-> ButtonPressed(port, GPIOButtonPins)]
    /\ UNCHANGED <<aside, port, other, pairBit, samples, calls, phase, zeroRuns,
                   isolated, before>>

Released ==
    /\ \E GPIOButtonPins \in MaskSet :
          ret' = [op |-> "released", arg |-> GPIOButtonPins,
                  val |-> ButtonReleased(port, GPIOButtonPins)]
    /\ UNCHANGED <<aside, port, other, pairBit, samples, calls, phase, zeroRuns,
                   isolated, before>>

StateGet ==
    /\ ret' = [op |-> "state", arg |-> 0,
               val |-> ButtonDebounceStateGet(port)]
    /\ UNCHANGED <<aside, port, other, pairBit, samples, calls, phase, zeroRuns,
                   isolated, before>>

Next == Reinit \/ Process \/ Pressed \/ Released \/ StateGet

Spec == Init /\ [][Next]_vars

----------------------------------------------------------------------------
\* One instance fed a raw sequence whose runs of 0s are recorded per bit

ProcessBounce ==
    \E portStatus \in RawSet :
        /\ ProcessCall(portStatus)
        /\ zeroRuns' = zeroRuns \cup ZeroRun(samples')
        /\ isolated' = StillIsolated(isolated, samples, portStatus)
        /\ UNCHANGED <<aside, other, pairBit>>

NextBounce == Reinit \/ ProcessBounce

SpecBounce == Init /\ [][NextBounce]_vars

----------------------------------------------------------------------------
\* Two instances: bit pairBit is pulled up on port and pulled down on other,
\* and the raw samples given to the two are inverse on that bit

PairInit ==
    /\ \E b \in PairBits, u, v \in UninitSet, pullA, pullB \in PullSet :
          /\ Bit(pullA, b) = 1
          /\ Bit(pullB, b) = 0
          /\ pairBit = b
          /\ port = ButtonDebounceInit(u, pullA)
          /\ other = ButtonDebounceInit(v, pullB)
          /\ before = u.debouncedState
          /\ ret = [op |-> "init", arg |-> pullA, val |-> 0]
    /\ samples = << >>
    /\ calls = 0
    /\ phase = 0
    /\ zeroRuns = {}
    /\ isolated = Bits
    /\ AsideInit

PairProcess ==
    /\ \E portStatus, otherStatus \in PairRawSet :
          /\ Bit(portStatus, pairBit) # Bit(otherStatus, pairBit)
          /\ ProcessCall(portStatus)
          /\ other' = ButtonProcess(other, otherStatus)
    /\ UNCHANGED <<aside, pairBit, zeroRuns, isolated>>

PairReinit ==
    /\ \E pullA, pullB \in PullSet :
          /\ Bit(pullA, pairBit) = 1
          /\ Bit(pullB, pairBit) = 0
          /\ port' = ButtonDebounceInit(port, pullA)
          /\ other' = ButtonDebounceInit(other, pullB)
          /\ ret' = [op |-> "init", arg |-> pullA, val |-> 0]
    /\ before' = port.debouncedState
    /\ samples' = << >>
    /\ calls' = 0
    /\ phase' = 0
    /\ UNCHANGED <<aside, pairBit, zeroRuns, isolated>>

NextPair == PairProcess \/ PairReinit

SpecPair == PairInit /\ [][NextPair]_vars

----------------------------------------------------------------------------
\* Two instances whose pull types and raw samples agree on bit pairBit and
\* differ freely on the other bits

SameInit ==
    /\ \E b \in PairBits, u, v \in UninitSet, pullA, pullB \in PullSet :
          /\ Bit(pullA, b) = Bit(pullB, b)
          /\ pairBit = b
          /\ port = ButtonDebounceInit(u, pullA)
          /\ other = ButtonDebounceInit(v, pullB)
          /\ before = u.debouncedState
          /\ ret = [op |-> "init", arg |-> pullA, val |-> 0]
    /\ samples = << >>
    /\ calls = 0
    /\ phase = 0
    /\ zeroRuns = {}
    /\ isolated = Bits
    /\ AsideInit

SameProcess ==
    /\ \E portStatus, otherStatus \in PairRawSet :
          /\ Bit(portStatus, pairBit) = Bit(otherStatus, pairBit)
          /\ ProcessCall(portStatus)
          /\ other' = ButtonProcess(other, otherStatus)
    /\ UNCHANGED <<aside, pairBit, zeroRuns, isolated>>

SameReinit ==
    /\ \E pullA, pullB \in PullSet :
          /\ Bit(pullA, pairBit) = Bit(pullB, pairBit)
          /\ port' = ButtonDebounceInit(port, pullA)
          /\ other' = ButtonDebounceInit(other, pullB)
          /\ ret' = [op |-> "init", arg |-> pullA, val |-> 0]
    /\ before' = port.debouncedState
    /\ samples' = << >>
    /\ calls' = 0
    /\ phase' = 0
    /\ UNCHANGED <<aside, pairBit, zeroRuns, isolated>>

NextSame == SameProcess \/ SameReinit

SpecSame == SameInit /\ [][NextSame]_vars

----------------------------------------------------------------------------
\* One instance fed runs of equal raw samples, the changes reported during
\* a run being accumulated

BitsOf(v) == { b \in Bits : Bit(v, b) = 1 }

ProcessSteady ==
    \E portStatus \in RawSet :
        /\ ProcessCall(portStatus)
        /\ run' = IF Len(samples) > 0 /\ samples[Len(samples)] = portStatus
                  THEN [run EXCEPT
                          !.changed = @ \cup BitsOf(port'.changed),
                          !.twice = @ \cup (run.changed
                                               \cap BitsOf(port'.changed))]
                  ELSE [start |-> port.debouncedState,
                        changed |-> BitsOf(port'.changed),
                        twice |-> {}]
        /\ UNCHANGED <<depth, cursor, steps, events, proc, snap, other,
                       pairBit, zeroRuns, isolated>>

NextSteady == ProcessSteady

SpecSteady == Init /\ [][NextSteady]_vars

----------------------------------------------------------------------------
\* One instance whose reported press and release events are recorded

\* The record of bit b after a call that left the instance as p.
Recorded(e, p, b) ==
    LET pressedNow == Bit(ButtonPressed(p, 255), b) = 1
        releasedNow == Bit(ButtonReleased(p, 255), b) = 1
    IN [last |-> IF pressedNow THEN "pressed"
                 ELSE IF releasedNow THEN "released" ELSE e.last,
        since |-> IF pressedNow THEN 0 ELSE Saturate(e.since + 1),
        presses |-> IF pressedNow /\ e.presses < 2
                    THEN e.presses + 1 ELSE e.presses]

ProcessEvents ==
    \E portStatus \in RawSet :
        /\ ProcessCall(portStatus)
        /\ events' = Recorded(events, port', pairBit)
        /\ UNCHANGED <<depth, cursor, steps, run, proc, snap, other, pairBit,
                       zeroRuns, isolated>>

EventsInit ==
    /\ \E u \in UninitSet, pulledUpButtons \in PullSet :
          /\ port = ButtonDebounceInit(u, pulledUpButtons)
          /\ before = u.debouncedState
          /\ ret = [op |-> "init", arg |-> pulledUpButtons, val |-> 0]
    /\ pairBit \in PairBits
    /\ other = Idle
    /\ samples = << >>
    /\ calls = 0
    /\ phase = 0
    /\ zeroRuns = {}
    /\ isolated = Bits
    /\ AsideInit

NextEvents == ProcessEvents

SpecEvents == EventsInit /\ [][NextEvents]_vars

----------------------------------------------------------------------------
\* One instance whose ButtonProcess call runs statement by statement and
\* can be interrupted between two statements by a query on the same
\* instance (Pressed, Released, StateGet)

IrqInit ==
    /\ \E u \in UninitSet, pulledUpButtons \in PullSet :
          /\ port = ButtonDebounceInit(u, pulledUpButtons)
          /\ snap = ButtonDebounceInit(u, pulledUpButtons)
          /\ before = u.debouncedState
          /\ ret = [op |-> "init", arg |-> pulledUpButtons, val |-> 0]
    /\ proc = NoCall
    /\ other = Idle
    /\ pairBit = 0
    /\ samples = << >>
    /\ calls = 0
    /\ phase = 0
    /\ zeroRuns = {}
    /\ isolated = Bits
    /\ depth = MAX_BUTTON_CHECKS
    /\ cursor = 0
    /\ steps = 0
    /\ run = [start |-> 255, changed |-> {}, twice |-> {}]
    /\ events = NoEvents

IrqRest == <<other, pairBit, zeroRuns, isolated, depth, cursor, steps, run,
             events>>

InCall == [op |-> "process", arg |-> proc.raw, val |-> 0]

\* uint8_t lastDebouncedState = port->debouncedState;
ProcEnter ==
    /\ proc.pc = "idle"
    /\ \E portStatus \in IrqRawSet :
          /\ proc' = [pc |-> "normalize", i |-> 0,
                      lastDebouncedState |-> port.debouncedState,
                      portStatus |-> portStatus, raw |-> portStatus]
          /\ ret' = [op |-> "process", arg |-> portStatus, val |-> 0]
    /\ snap' = port
    /\ UNCHANGED <<port, samples, calls, phase, before, IrqRest>>

\* portStatus = ~(portStatus ^ port->pullType);
ProcNormalize ==
    /\ proc.pc = "normalize"
    /\ proc' = [proc EXCEPT
                   !.pc = "store",
                   !.portStatus = Normalize(proc.portStatus, port.pullType)]
    /\ ret' = InCall
    /\ UNCHANGED <<port, snap, samples, calls, phase, before, IrqRest>>

\* port->state[port->index] = portStatus;
ProcStore ==
    /\ proc.pc = "store"
    /\ port' = [port EXCEPT !.state[port.index] = proc.portStatus]
    /\ proc' = [proc EXCEPT !.pc = "reset"]
    /\ ret' = InCall
    /\ UNCHANGED <<snap, samples, calls, phase, before, IrqRest>>

\* (fault: debouncedState is not set to 0xFF before the loop)
ProcResetMissing ==
    /\ proc.pc = "reset"
    /\ proc' = [proc EXCEPT !.pc = "loop", !.i = 0]
    /\ ret' = InCall
    /\ UNCHANGED <<port, snap, samples, calls, phase, before, IrqRest>>

\* for(i = 0, port->debouncedState = 0xFF; ...
ProcReset ==
    /\ proc.pc = "reset"
    /\ port' = [port EXCEPT !.debouncedState = 255]
    /\ proc' = [proc EXCEPT !.pc = "loop", !.i = 0]
    /\ ret' = InCall
    /\ UNCHANGED <<snap, samples, calls, phase, before, IrqRest>>

\* ... i < MAX_BUTTON_CHECKS; i++)
\*     port->debouncedState = port->debouncedState & port->state[i];
ProcLoop ==
    /\ proc.pc = "loop"
    /\ IF proc.i < MAX_BUTTON_CHECKS
       THEN /\ port' = [port EXCEPT
                          !.debouncedState = BitAnd(@, port.state[proc.i])]
            /\ proc' = [proc EXCEPT !.i = (@ + 1) % 256]
       ELSE /\ proc' = [proc EXCEPT !.pc = "advance"]
            /\ UNCHANGED port
    /\ ret' = InCall
    /\ UNCHANGED <<snap, samples, calls, phase, before, IrqRest>>

\* port->index++; if(port->index >= MAX_BUTTON_CHECKS) port->index = 0;
ProcAdvance ==
    /\ proc.pc = "advance"
    /\ port' = [port EXCEPT !.index = NextIndex(@)]
    /\ proc' = [proc EXCEPT !.pc = "changed"]
    /\ ret' = InCall
    /\ UNCHANGED <<snap, samples, calls, phase, before, IrqRest>>

\* port->changed = port->debouncedState ^ lastDebouncedState; and return
ProcChanged ==
    /\ proc.pc = "changed"
    /\ port' = [port EXCEPT
                   !.changed = Changed(port.debouncedState,
                                       proc.lastDebouncedState)]
    /\ proc' = NoCall
    /\ ret' = InCall
    /\ samples' = Window(Append(samples, proc.raw))
    /\ calls' = Saturate(calls + 1)
    /\ phase' = (phase + 1) % MAX_BUTTON_CHECKS
    /\ before' = proc.lastDebouncedState
    /\ UNCHANGED <<snap, IrqRest>>

NextIrq ==
    \/ ProcEnter \/ ProcNormalize \/ ProcStore \/ ProcReset \/ ProcLoop
    \/ ProcAdvance \/ ProcChanged
    \/ Pressed \/ Released \/ StateGet

SpecIrq == IrqInit /\ [][NextIrq]_vars

----------------------------------------------------------------------------
\* The index of an instance of any window depth

DepthInit ==
    /\ depth \in 1..MaxDepth
    /\ cursor = 0
    /\ steps = 0
    /\ run = [start |-> 255, changed |-> {}, twice |-> {}]
    /\ events = NoEvents
    /\ proc = NoCall
    /\ snap = Idle
    /\ port = Idle
    /\ other = Idle
    /\ pairBit = 0
    /\ samples = << >>
    /\ calls = 0
    /\ phase = 0
    /\ zeroRuns = {}
    /\ isolated = Bits
    /\ before = 255
    /\ ret = [op |-> "init", arg |-> 0, val |-> 0]

DepthProcess ==
    /\ steps < MaxSteps
    /\ cursor' = IndexAdvance(cursor, depth)
    /\ steps' = steps + 1
    /\ UNCHANGED <<depth, run, events, proc, snap, port, other, pairBit,
                   samples, calls, phase, zeroRuns, isolated, before, ret>>

DepthReinit ==
    /\ cursor' = 0
    /\ steps' = 0
    /\ UNCHANGED <<depth, run, events, proc, snap, port, other, pairBit,
                   samples, calls, phase, zeroRuns, isolated, before, ret>>

NextDepth == DepthProcess \/ DepthReinit

SpecDepth == DepthInit /\ [][NextDepth]_vars

----------------------------------------------------------------------------
\* Properties

\* A sample reads "pressed" on bit b when the line is high and pulled down
\* or low and pulled up.
PressedSample(raw, b) == Bit(raw, b) # Bit(port.pullType, b)

WindowFull == Len(samples) = MAX_BUTTON_CHECKS

\* C1 (as stated): debouncedState is the AND of all slots of the state
\* array; a bit of debouncedState is 0 only if it is 0 in every slot, and
\* is 1 as soon as one slot has it 1.
C1_AsStated ==
    \A b \in Bits :
        /\ Bit(port.debouncedState, b) = 1
              <=> \A i \in Slots : Bit(port.state[i], b) = 1
        /\ Bit(port.debouncedState, b) = 0
              => \A i \in Slots : Bit(port.state[i], b) = 0
        /\ (\E i \in Slots : Bit(port.state[i], b) = 1)
              => Bit(port.debouncedState, b) = 1

\* C1 (amended): debouncedState is the AND of all slots of the state
\* array; a bit of debouncedState is 1 only if it is 1 in every slot, and
\* is 0 as soon as one slot has it 0.
C1_AndOfWindow ==
    \A b \in Bits :
        /\ Bit(port.debouncedState, b) = 1
              => \A i \in Slots : Bit(port.state[i], b) = 1
        /\ (\E i \in Slots : Bit(port.state[i], b) = 0)
              => Bit(port.debouncedState, b) = 0
        /\ (\A i \in Slots : Bit(port.state[i], b) = 1)
              => Bit(port.debouncedState, b) = 1

\* A processed window in which the slots disagree on a bit, which reads 0.
C1_Witness ==
    /\ calls > 0
    /\ \E b \in Bits : \E i, j \in Slots :
          /\ Bit(port.state[i], b) = 0
          /\ Bit(port.state[j], b) = 1
          /\ Bit(port.debouncedState, b) = 0

\* C2 (as stated): a bit of debouncedState goes from 1 to 0 on a process
\* call only if that call and the MAX_BUTTON_CHECKS-1 calls before it all
\* supplied a pressed sample; and a call that supplies an at-rest sample
\* leaves the bit 1.
C2_AsStated ==
    calls > 0 =>
        \A b \in Bits :
            /\ (Bit(before, b) = 1 /\ Bit(port.debouncedState, b) = 0)
                  => /\ WindowFull
                     /\ \A k \in 1..Len(samples) : PressedSample(samples[k], b)
            /\ ~PressedSample(samples[Len(samples)], b)
                  => Bit(port.debouncedState, b) = 1

\* C2 (amended): a bit of debouncedState goes from 0 (pressed) to 1 (at
\* rest) on a process call only if that call and the MAX_BUTTON_CHECKS-1
\* calls before it all supplied an at-rest sample; and a call that supplies
\* a pressed sample leaves the bit 0 immediately, whatever came before.
C2_FullWindowRelease ==
    calls > 0 =>
        \A b \in Bits :
            /\ (Bit(before, b) = 0 /\ Bit(port.debouncedState, b) = 1)
                  => /\ WindowFull
                     /\ \A k \in 1..Len(samples) :
                           ~PressedSample(samples[k], b)
            /\ PressedSample(samples[Len(samples)], b)
                  => Bit(port.debouncedState, b) = 0

\* A call on which a bit returned to rest, and one on which a bit went to
\* pressed while the sample before it was at rest.
C2_Witness ==
    /\ calls > 0
    /\ \E b \in Bits :
          /\ Bit(before, b) = 0
          /\ Bit(port.debouncedState, b) = 1
    /\ \E b \in Bits :
          /\ Bit(before, b) = 1
          /\ Bit(port.debouncedState, b) = 0
          /\ Len(samples) > 1
          /\ ~PressedSample(samples[Len(samples) - 1], b)

\* C3 (as stated): a bit whose raw samples since initialisation are mostly
\* 1 with isolated 0s, and never MAX_BUTTON_CHECKS 0s in a row, is never 0
\* in debouncedState.
C3_AsStated ==
    calls > 0 =>
        \A b \in isolated \ zeroRuns : Bit(port.debouncedState, b) = 1

\* C3 (amended): for a pulled-down bit, once a raw 1 has been sampled and
\* as long as the raw samples after it never contain MAX_BUTTON_CHECKS 0s
\* in a row (so that the window always holds a raw 1), the bit of
\* debouncedState is 0 (pressed) after every process call.
C3_BounceRejected ==
    calls > 0 =>
        \A b \in Bits :
            (/\ Bit(port.pullType, b) = 0
             /\ \E k \in 1..Len(samples) : Bit(samples[k], b) = 1)
                => Bit(port.debouncedState, b) = 0

\* A pulled-down bit that bounced to raw 0 after a raw 1 and still reads
\* pressed.
C3_Witness ==
    /\ calls > 1
    /\ \E b \in Bits :
          /\ Bit(port.pullType, b) = 0
          /\ Bit(samples[Len(samples)], b) = 0
          /\ \E k \in 1..Len(samples) : Bit(samples[k], b) = 1
          /\ Bit(port.debouncedState, b) = 0

\* C4: after MAX_BUTTON_CHECKS consecutive process calls with the same raw
\* byte r, debouncedState is NOT(r XOR pullType) on all eight bits.
C4_SteadyInput ==
    (WindowFull /\ \A k \in 1..Len(samples) : samples[k] = samples[1])
        => \A b \in Bits :
              Bit(port.debouncedState, b) = 1
                 <=> Bit(samples[1], b) = Bit(port.pullType, b)

\* A steady window that followed other samples and holds pressed bits.
C4_Witness ==
    /\ WindowFull
    /\ \A k \in 1..Len(samples) : samples[k] = samples[1]
    /\ calls > MAX_BUTTON_CHECKS
    /\ port.debouncedState \notin {0, 255}

\* C5: after a process call, ButtonPressed(0xFF) is the set of bits that
\* went from 1 to 0 during the call, ButtonReleased(0xFF) the set of bits
\* that went from 0 to 1, and changed the XOR of debouncedState before and
\* after the call.
C5_EdgeMasks ==
    calls > 0 =>
        \A b \in Bits :
            /\ Bit(ButtonPressed(port, 255), b) = 1
                  <=> (Bit(before, b) = 1 /\ Bit(port.debouncedState, b) = 0)
            /\ Bit(ButtonReleased(port, 255), b) = 1
                  <=> (Bit(before, b) = 0 /\ Bit(port.debouncedState, b) = 1)
            /\ Bit(port.changed, b) = 1
                  <=> Bit(before, b) # Bit(port.debouncedState, b)

\* A call that pressed one bit and released another, after a call that had
\* changed something else.
C5_Witness ==
    /\ calls > 1
    /\ ButtonPressed(port, 255) # 0
    /\ ButtonReleased(port, 255) # 0

\* The specification's scenario: all inputs pulled up, and
\* MAX_BUTTON_CHECKS process calls with raw 0xFE since initialisation.
Scenario ==
    /\ port.pullType = 255
    /\ calls = MAX_BUTTON_CHECKS
    /\ \A k \in 1..Len(samples) : samples[k] = 254

\* C6 (as stated): ButtonDebounceStateGet reads 1 for a debounced-pressed
\* bit and 0 for a bit at rest, whatever the pull type; in the scenario
\* debouncedState is 0xFE and ButtonDebounceStateGet returns 0x01.
C6_AsStated ==
    /\ \A b \in Bits :
          Bit(ButtonDebounceStateGet(port), b) = 1
             <=> Bit(port.debouncedState, b) = 0
    /\ Scenario => /\ port.debouncedState = 254
                   /\ ButtonDebounceStateGet(port) = 1

\* C6 (amended): ButtonDebounceStateGet reads a debounced-pressed bit at
\* its active electrical level, 1 when pulled down and 0 when pulled up
\* (and a bit at rest at the opposite level); in the scenario
\* debouncedState is 0xFE and ButtonDebounceStateGet returns 0xFE.
C6_ElectricalSense ==
    /\ \A b \in Bits :
          Bit(ButtonDebounceStateGet(port), b) = 1
             <=> (Bit(port.debouncedState, b) = 0
                     <=> Bit(port.pullType, b) = 0)
    /\ Scenario => /\ port.debouncedState = 254
                   /\ ButtonDebounceStateGet(port) = 254

\* The scenario's state, queried.
C6_Witness ==
    /\ Scenario
    /\ ret.op = "state"
    /\ ret.val = 254

\* C7 (as stated): after every process call the two instances return the
\* same value for bit pairBit of ButtonDebounceStateGet.
C7_AsStated ==
    calls > 0 =>
        Bit(ButtonDebounceStateGet(port), pairBit)
           = Bit(ButtonDebounceStateGet(other), pairBit)

\* C7 (amended): after every process call the two instances hold the same
\* value for bit pairBit of debouncedState and of changed, and return
\* opposite values for that bit of ButtonDebounceStateGet.
C7_PullSymmetry ==
    calls > 0 =>
        /\ Bit(port.debouncedState, pairBit)
              = Bit(other.debouncedState, pairBit)
        /\ Bit(port.changed, pairBit) = Bit(other.changed, pairBit)
        /\ Bit(ButtonDebounceStateGet(port), pairBit)
              # Bit(ButtonDebounceStateGet(other), pairBit)

\* The compared bit has just been released on both instances.
C7_Witness ==
    /\ calls > MAX_BUTTON_CHECKS
    /\ Bit(ButtonReleased(port, 255), pairBit) = 1
    /\ Bit(ButtonReleased(other, 255), pairBit) = 1
    /\ port.pullType # BitNot(other.pullType)

\* C8: for every mask, no bit is in both ButtonPressed(mask) and
\* ButtonReleased(mask).
C8_MutuallyExclusive ==
    \A mask \in Masks : \A b \in Bits :
        ~ /\ Bit(ButtonPressed(port, mask), b) = 1
          /\ Bit(ButtonReleased(port, mask), b) = 1

\* A call that pressed one bit and released another, then queried.
C8_Witness ==
    /\ ret.op = "released"
    /\ ret.val # 0
    /\ ButtonPressed(port, ret.arg) # 0

\* C9: after ButtonDebounceInit and before the first ButtonProcess, every
\* field is reset (index 0, debouncedState 0xFF, changed 0x00, all slots
\* 0xFF) and ButtonPressed and ButtonReleased are 0 for every mask.
C9_QuietAfterInit ==
    calls = 0 =>
        /\ port.index = 0
        /\ port.debouncedState = 255
        /\ port.changed = 0
        /\ \A i \in Slots : port.state[i] = 255
        /\ \A mask \in Masks :
              /\ ButtonPressed(port, mask) = 0
              /\ ButtonReleased(port, mask) = 0

\* An instance initialised again right after a call that changed bits,
\* then queried.
C9_Witness ==
    /\ calls = 0
    /\ ret.op \in {"pressed", "released"}
    /\ before \notin {0, 255}

\* C10: for every mask, ButtonPressed(mask) is ButtonPressed(0xFF) AND mask
\* and ButtonReleased(mask) is ButtonReleased(0xFF) AND mask.
C10_Masking ==
    \A mask \in Masks : \A b \in Bits :
        /\ Bit(ButtonPressed(port, mask), b)
              = Bit(ButtonPressed(port, 255), b) * Bit(mask, b)
        /\ Bit(ButtonReleased(port, mask), b)
              = Bit(ButtonReleased(port, 255), b) * Bit(mask, b)

\* A query whose mask removed some of the released bits and kept others.
C10_Witness ==
    /\ ret.op = "released"
    /\ ret.val # 0
    /\ ret.val # ButtonReleased(port, 255)

\* C11: two runs whose pull types and raw samples agree on bit pairBit
\* agree on that bit of debouncedState, changed, ButtonPressed(0xFF),
\* ButtonReleased(0xFF) and ButtonDebounceStateGet, whatever the other
\* seven bits are.
C11_BitIndependence ==
    /\ Bit(port.debouncedState, pairBit) = Bit(other.debouncedState, pairBit)
    /\ Bit(port.changed, pairBit) = Bit(other.changed, pairBit)
    /\ Bit(ButtonPressed(port, 255), pairBit)
          = Bit(ButtonPressed(other, 255), pairBit)
    /\ Bit(ButtonReleased(port, 255), pairBit)
          = Bit(ButtonReleased(other, 255), pairBit)
    /\ Bit(ButtonDebounceStateGet(port), pairBit)
          = Bit(ButtonDebounceStateGet(other), pairBit)

\* The compared bit was just pressed on both instances while the instances
\* differ in pull type, in debounced state and in what else changed.
C11_Witness ==
    /\ calls > 1
    /\ Bit(ButtonPressed(port, 255), pairBit) = 1
    /\ port.pullType # other.pullType
    /\ port.debouncedState # other.debouncedState
    /\ port.changed # other.changed

\* The window in call order, oldest first: slot (phase - j) holds the j-th
\* most recent sample.
SlotOf(j) == (phase + MAX_BUTTON_CHECKS - j) % MAX_BUTTON_CHECKS

\* Slot value v is the normalized form of raw sample r.
IsNormalized(v, r) ==
    \A b \in Bits : Bit(v, b) = 1 <=> Bit(r, b) = Bit(port.pullType, b)

\* C12: after k process calls index is k mod MAX_BUTTON_CHECKS, the slots
\* hold the normalized forms of the min(k, MAX_BUTTON_CHECKS) most recent
\* raw samples, the most recent one just behind index, and the remaining
\* slots are still 0xFF; debouncedState is the AND of that window.
C12_RingWindow ==
    /\ port.index = phase
    /\ Len(samples) = IF calls > MAX_BUTTON_CHECKS
                      THEN MAX_BUTTON_CHECKS ELSE calls
    /\ \A j \in 1..Len(samples) :
          IsNormalized(port.state[SlotOf(j)], samples[Len(samples) + 1 - j])
    /\ \A i \in Slots :
          (\A j \in 1..Len(samples) : SlotOf(j) # i) => port.state[i] = 255
    /\ \A b \in Bits :
          Bit(port.debouncedState, b) = 1
             <=> \A j \in 1..Len(samples) :
                    Bit(samples[j], b) = Bit(port.pullType, b)

\* The ring has wrapped and holds different samples.
C12_Witness ==
    /\ calls > MAX_BUTTON_CHECKS
    /\ port.index = 1
    /\ \E i, j \in Slots : port.state[i] # port.state[j]

\* C13: index is below MAX_BUTTON_CHECKS in every state, so the store into
\* the state array is inside it; each process call advances index by one
\* modulo MAX_BUTTON_CHECKS, for every depth from 1 up.
C13_IndexInRange ==
    /\ cursor \in 0..(depth - 1)
    /\ cursor = steps % depth

\* An instance of depth 1 after several calls.
C13_Witness ==
    /\ depth = 1
    /\ steps > 1
    /\ cursor = 0

SteadyWindow ==
    /\ WindowFull
    /\ \A k \in 1..Len(samples) : samples[k] = samples[1]

\* C14: during consecutive process calls with the same raw byte each bit
\* is set in changed after at most one of the calls, and the bits set in
\* changed over the calls are the bits in which debouncedState before the
\* first call differs from debouncedState now.  (Stated for runs of any
\* length, which gives it for every MAX_BUTTON_CHECKS consecutive calls of
\* a run.)
C14_NetChangeOnly ==
    calls > 0 =>
        /\ run.twice = {}
        /\ run.changed
              = { b \in Bits :
                     Bit(run.start, b) # Bit(port.debouncedState, b) }

\* MAX_BUTTON_CHECKS equal samples that pressed one bit and released
\* another, the last call of the run reporting a change.
C14_Witness ==
    /\ SteadyWindow
    /\ calls > MAX_BUTTON_CHECKS
    /\ port.changed # 0
    /\ \E b \in run.changed : Bit(port.debouncedState, b) = 1
    /\ \E b \in run.changed : Bit(port.debouncedState, b) = 0

\* C15 (as stated): for any button, the bit of ButtonDebounceStateGet is 1
\* from the process call that samples a raw 1, stays 1 while a raw 1 is in
\* the window, and is 0 again only after MAX_BUTTON_CHECKS consecutive raw
\* 0 samples.
C15_AsStated ==
    calls > 0 =>
        \A b \in Bits :
            Bit(ButtonDebounceStateGet(port), b) = 1
               <=> \E k \in 1..Len(samples) : Bit(samples[k], b) = 1

\* C15 (amended): for a pulled-down button, the bit of
\* ButtonDebounceStateGet is 1 from the process call that samples a raw 1,
\* stays 1 while a raw 1 is in the window, and is 0 again only after
\* MAX_BUTTON_CHECKS consecutive raw 0 samples.
C15_HeaderExample ==
    calls > 0 =>
        \A b \in Bits :
            Bit(port.pullType, b) = 0 =>
                (Bit(ButtonDebounceStateGet(port), b) = 1
                    <=> \E k \in 1..Len(samples) : Bit(samples[k], b) = 1)

\* A pulled-down button whose raw signal bounced back to 0 and which is
\* still read as 1.
C15_Witness ==
    /\ calls > 1
    /\ ret.op = "state"
    /\ \E b \in Bits :
          /\ Bit(port.pullType, b) = 0
          /\ Bit(samples[Len(samples)], b) = 0
          /\ \E k \in 1..Len(samples) : Bit(samples[k], b) = 1
          /\ Bit(ret.val, b) = 1

\* C16: after MAX_BUTTON_CHECKS consecutive process calls with the same raw
\* byte r, ButtonDebounceStateGet returns r; what it returns is always
\* NOT(debouncedState XOR pullType), which takes the normalized form of a
\* raw byte back to that byte.
C16_RestoresSense ==
    /\ SteadyWindow => ButtonDebounceStateGet(port) = samples[1]
    /\ ret.op = "state" =>
          \A b \in Bits :
              Bit(ret.val, b) = 1
                 <=> Bit(port.debouncedState, b) = Bit(port.pullType, b)
    /\ \A r \in RawSet \cup Masks :
          ButtonDebounceStateGet(
              [port EXCEPT !.debouncedState = Normalize(r, port.pullType)])
             = r

\* A steady window on an instance with both pull types, queried.
C16_Witness ==
    /\ SteadyWindow
    /\ calls > MAX_BUTTON_CHECKS
    /\ port.pullType = 15
    /\ ret.op = "state"
    /\ ret.val = samples[1]
    /\ ret.val \notin {0, 255}

\* C17: per bit, a press is reported by a process call exactly when the
\* bit went from 1 to 0 in that call and a release exactly when it went
\* from 0 to 1; the event before a reported press is not a press, the event
\* before a reported release is a press (so the first event is a press),
\* and a press comes at least MAX_BUTTON_CHECKS + 1 calls after the
\* previous press of the same bit.
C17_Step ==
    ret'.op = "process" =>
        LET b == pairBit
            pressedNow == Bit(ButtonPressed(port', 255), b) = 1
            releasedNow == Bit(ButtonReleased(port', 255), b) = 1
        IN /\ pressedNow <=> (/\ Bit(port.debouncedState, b) = 1
                              /\ Bit(port'.debouncedState, b) = 0)
           /\ releasedNow <=> (/\ Bit(port.debouncedState, b) = 0
                               /\ Bit(port'.debouncedState, b) = 1)
           /\ pressedNow => /\ events.last # "pressed"
                            /\ events.since + 1 > MAX_BUTTON_CHECKS
           /\ releasedNow => events.last = "pressed"

C17_EventsAlternate == [][C17_Step]_vars

\* The recorded bit reported pressed for the second time.
C17_Witness ==
    /\ events.presses = 2
    /\ events.since = 0
    /\ Bit(ButtonPressed(port, 255), pairBit) = 1

\* C18: ButtonPressed, ButtonReleased and ButtonDebounceStateGet leave
\* every field of the instance as it was; ButtonProcess leaves pullType as
\* it was, and ButtonDebounceInit sets it to the value it is given.
C18_Step ==
    /\ ret'.op \in {"pressed", "released", "state"} => port' = port
    /\ ret'.op = "process" => port'.pullType = port.pullType
    /\ ret'.op = "init" => port'.pullType = ret'.arg

C18_Frame == [][C18_Step]_vars

\* A query that reported a press, the instance still holding the change.
C18_Witness ==
    /\ calls > 0
    /\ ret.op = "pressed"
    /\ ret.val # 0
    /\ port.changed # 0
    /\ port.pullType = 15

\* C19: nothing keeps a query from seeing a ButtonProcess call half done.
\* While the call is in progress changed is still the previous call's, and
\* debouncedState is the old value, then 0xFF, then the AND of the slots
\* the loop has passed; the call ends in the state ButtonProcess defines.
\* A query made while no call is in progress reports a release only for a
\* bit that went from 0 to 1 in the last call.  (That a query made during
\* a call returns what no serialized order returns is C19_Witness.)
C19_Unsynchronized ==
    /\ proc.pc # "idle" =>
          /\ port.changed = snap.changed
          /\ port.pullType = snap.pullType
    /\ proc.pc \in {"normalize", "store", "reset"} =>
          port.debouncedState = snap.debouncedState
    /\ proc.pc \in {"loop", "advance", "changed"} =>
          \A b \in Bits :
              Bit(port.debouncedState, b) = 1
                 <=> \A j \in Slots : j < proc.i => Bit(port.state[j], b) = 1
    /\ proc.pc \in {"advance", "changed"} => proc.i = MAX_BUTTON_CHECKS
    /\ (proc.pc = "idle" /\ calls > 0) =>
          port = ButtonProcess(snap, samples[Len(samples)])
    /\ (proc.pc = "idle" /\ ret.op = "released") =>
          \A b \in Bits :
              Bit(ret.val, b) = 1 =>
                  /\ calls > 0
                  /\ Bit(before, b) = 0
                  /\ Bit(port.debouncedState, b) = 1

\* A release reported from inside a call, which the query would report
\* neither before nor after that call, so early after initialisation that
\* no bit can have returned to rest.
C19_Witness ==
    /\ proc.pc # "idle"
    /\ ret.op = "released"
    /\ ret.val # 0
    /\ calls + 1 < MAX_BUTTON_CHECKS
    /\ ret.val # ButtonReleased(snap, ret.arg)
    /\ ret.val # ButtonReleased(ButtonProcess(snap, proc.raw), ret.arg)

====
